---- MODULE Spec2Model ----
(***************************************************************************)
(* Model of the image logical-operation tool: ImageProcessor               *)
(* (src/image_processor.py), FileHandler.validate_image_format             *)
(* (src/file_handler.py) and ImageLogicalOperationsApp.upload_images /     *)
(* handle_operation (src/app.py).                                          *)
(*                                                                         *)
(* A numpy array is a record [shape, dtype, data]: shape is <<h, w>> for a *)
(* 2-D array and <<h, w, c>> for a 3-D one, data[i][j] is the sequence of  *)
(* the channel values of the pixel in row i, column j (one value for a 2-D *)
(* array).  The Python value None is the record None.                      *)
(*                                                                         *)
(* A call that can raise returns a record [exc, val, calls]: exc says that *)
(* an exception left the call, val is the returned value and calls is the  *)
(* sequence of library calls (cv2 / numpy) started so far, in order.       *)
(***************************************************************************)
EXTENDS Integers, Sequences, FiniteSets, TLC

\* ------------------------------------------------------------------ bounds
\* Height and width of the exhaustively enumerated small buffers: 0..MaxDim.
MaxDim == 2

\* ------------------------------------------------------- program constants
\* ImageProcessor.__init__: self.max_dimension
max_dimension == 2048
\* convert_to_binary: cv2.threshold(gray, 127, 255, cv2.THRESH_BINARY)
thresh == 127
maxval == 255

\* ------------------------------------------------------------- arithmetic
Min(a, b) == IF a <= b THEN a ELSE b
Max(a, b) == IF a >= b THEN a ELSE b

\* The element of a set of one element.  The({e : v \in {x}}) is e with v
\* standing for the value of x, computed once, as the assignment v = x followed
\* by e; nested, the assignments read from the last line up.
The(S) == CHOOSE y \in S : TRUE

RECURSIVE Sum(_, _, _)
\* f[lo] + ... + f[hi], by halves
Sum(f, lo, hi) ==
    IF lo > hi THEN 0
    ELSE IF lo = hi THEN f[lo]
    ELSE The({Sum(f, lo, mid) + Sum(f, mid + 1, hi) : mid \in {(lo + hi) \div 2}})

\* n / d rounded to the nearest integer, ties to even (cvRound / saturate_cast)
RoundHalfEven(n, d) ==
    LET q == n \div d
        r == n % d
    IN  IF 2 * r < d THEN q
        ELSE IF 2 * r > d THEN q + 1
        ELSE IF q % 2 = 0 THEN q ELSE q + 1

RECURSIVE BitAnd(_, _, _)
\* bitwise AND of the low n bits of x and y
BitAnd(x, y, n) ==
    IF n = 0 THEN 0
    ELSE (IF x % 2 = 1 /\ y % 2 = 1 THEN 1 ELSE 0) + 2 * BitAnd(x \div 2, y \div 2, n - 1)

RECURSIVE BitOr(_, _, _)
\* bitwise OR of the low n bits of x and y
BitOr(x, y, n) ==
    IF n = 0 THEN 0
    ELSE (IF x % 2 = 1 \/ y % 2 = 1 THEN 1 ELSE 0) + 2 * BitOr(x \div 2, y \div 2, n - 1)

\* ------------------------------------------------------------ numpy arrays
None == [shape |-> <<>>, dtype |-> "NoneType", data |-> <<>>]

Array(shape, dtype, data) == [shape |-> shape, dtype |-> dtype, data |-> data]

Height(img) == img.shape[1]
Width(img) == img.shape[2]
\* number of values per pixel held in data
Depth(img) == IF Len(img.shape) = 3 THEN img.shape[3] ELSE 1
IsEmpty(img) == Height(img) = 0 \/ Width(img) = 0 \/ Depth(img) = 0
\* img.size
Size(img) == Height(img) * Width(img) * Depth(img)

\* the shape of an array with the layout of img and h rows, w columns
Reshaped(img, h, w) == IF Len(img.shape) = 3 THEN <<h, w, img.shape[3]>> ELSE <<h, w>>

Ok(v, calls) == [exc |-> FALSE, val |-> v, calls |-> calls]
Raise(calls) == [exc |-> TRUE, val |-> None, calls |-> calls]

\* ------------------------------------------------------- cv2 / numpy calls
\* Length of the overlap of destination cell i (of D cells) with source cell r
\* (of S cells) along one axis, in units of 1/D of a source cell.
Overlap(i, r, S, D) == Max(0, Min(i * S, r * D) - Max((i - 1) * S, (r - 1) * D))
FirstSrc(i, S, D) == ((i - 1) * S) \div D + 1
LastSrc(i, S, D) == (i * S + D - 1) \div D

\* cv2.resize(..., interpolation=cv2.INTER_AREA): channel k of destination pixel
\* (i, j) is the average of the source pixels under it, weighted by the covered
\* area.  With an integer scale on both axes the block sum is divided by the
\* block area (a 2 x 2 block as (sum + 2) >> 2); otherwise the weighted sum is
\* rounded to nearest.
AreaValue(img, i, j, k, dh, dw) ==
    LET sh == Height(img)
        sw == Width(img)
        r0 == FirstSrc(i, sh, dh)
        r1 == LastSrc(i, sh, dh)
        c0 == FirstSrc(j, sw, dw)
        c1 == LastSrc(j, sw, dw)
        rowsum(r) == Sum([c \in c0..c1 |-> Overlap(j, c, sw, dw) * img.data[r][c][k]], c0, c1)
        total == Sum([r \in r0..r1 |-> Overlap(i, r, sh, dh) * rowsum(r)], r0, r1)
    IN  IF sh = 2 * dh /\ sw = 2 * dw
        THEN (total \div (dh * dw) + 2) \div 4
        ELSE RoundHalfEven(total, sh * sw)

\* cv2.resize(img, (dw, dh), interpolation=cv2.INTER_AREA).  An empty source or
\* a destination size with a non-positive side is rejected with cv2.error; a
\* destination of the source's size is a copy.
cv2_resize(img, dw, dh, calls) ==
    LET now == Append(calls, "cv2.resize")
    IN  IF IsEmpty(img) \/ dw <= 0 \/ dh <= 0 THEN Raise(now)
        ELSE IF dh = Height(img) /\ dw = Width(img) THEN Ok(img, now)
        ELSE Ok(Array(Reshaped(img, dh, dw), img.dtype,
                      [i \in 1..dh |-> [j \in 1..dw |->
                          [k \in 1..Depth(img) |-> AreaValue(img, i, j, k, dh, dw)]]]),
                now)

\* img.astype(np.uint8): every value is reduced modulo 2^8
astype_uint8(img, calls) ==
    Ok(Array(img.shape, "uint8",
             [i \in 1..Height(img) |-> [j \in 1..Width(img) |->
                 [k \in 1..Depth(img) |-> img.data[i][j][k] % 256]]]),
       Append(calls, "astype"))

\* 8-bit luma of a (B, G, R) pixel: fixed-point weights with a 15-bit shift
Luma(px) == (px[1] * 3735 + px[2] * 19235 + px[3] * 9798 + 16384) \div 32768

\* cv2.cvtColor(img, cv2.COLOR_BGR2GRAY): a non-empty source of 3 or 4 channels
\* gives a 2-D array; anything else is rejected with cv2.error.
cv2_cvtColor(img, calls) ==
    LET now == Append(calls, "cv2.cvtColor")
    IN  IF IsEmpty(img) \/ Len(img.shape) # 3 \/ Depth(img) \notin {3, 4} THEN Raise(now)
        ELSE Ok(Array(<<Height(img), Width(img)>>, img.dtype,
                      [i \in 1..Height(img) |-> [j \in 1..Width(img) |->
                          <<Luma(img.data[i][j])>>]]),
                now)

\* Binarize with cv2.THRESH_TOZERO for cv2.THRESH_BINARY
Binarize_ToZero(v) == IF v > thresh THEN v ELSE 0

\* Binarize with cv2.THRESH_BINARY_INV for cv2.THRESH_BINARY
Binarize_Inverted(v) == IF v > thresh THEN 0 ELSE maxval

\* Binarize with the threshold itself taken as white
Binarize_AtLeast(v) == IF v >= thresh THEN maxval ELSE 0

\* the value cv2.threshold(.., thresh, maxval, THRESH_BINARY) gives for v
Binarize(v) == IF v > thresh THEN maxval ELSE 0

\* cv2.threshold(gray, 127, 255, cv2.THRESH_BINARY)[1].  For an empty source the
\* destination has no data and the binding hands back None.
cv2_threshold(gray, calls) ==
    LET now == Append(calls, "cv2.threshold")
    IN  IF IsEmpty(gray) THEN Ok(None, now)
        ELSE Ok(Array(gray.shape, gray.dtype,
                      [i \in 1..Height(gray) |-> [j \in 1..Width(gray) |->
                          [k \in 1..Depth(gray) |-> Binarize(gray.data[i][j][k])]]]),
                now)

\* cv2.bitwise_and(src1, src2): None or arrays of different shapes are rejected
cv2_bitwise_and(src1, src2, calls) ==
    LET now == Append(calls, "cv2.bitwise_and")
    IN  IF src1 = None \/ src2 = None \/ src1.shape # src2.shape THEN Raise(now)
        ELSE Ok(Array(src1.shape, src1.dtype,
                      [i \in 1..Height(src1) |-> [j \in 1..Width(src1) |->
                          [k \in 1..Depth(src1) |->
                              BitAnd(src1.data[i][j][k], src2.data[i][j][k], 8)]]]),
                now)

\* cv2.bitwise_or(src1, src2)
cv2_bitwise_or(src1, src2, calls) ==
    LET now == Append(calls, "cv2.bitwise_or")
    IN  IF src1 = None \/ src2 = None \/ src1.shape # src2.shape THEN Raise(now)
        ELSE Ok(Array(src1.shape, src1.dtype,
                      [i \in 1..Height(src1) |-> [j \in 1..Width(src1) |->
                          [k \in 1..Depth(src1) |->
                              BitOr(src1.data[i][j][k], src2.data[i][j][k], 8)]]]),
                now)

\* --------------------------------------------------------- ImageProcessor
\* The sizes m for which the double product m * (2048 / m) falls just below
\* 2048 (and (m / 2) * (2048 / m) just below 1024), among the sizes used here.
FloatFallsShort == {2215}

\* int(x * scale) with scale = min(2048 / height, 2048 / width) = 2048 / m, where
\* m is the larger side: the floor of the double product.
ScaledSide(x, m) ==
    LET q == (x * max_dimension) \div m
    IN  IF (x * max_dimension) % m = 0 /\ m \in FloatFallsShort THEN q - 1 ELSE q

\* resize_if_needed without its size check
resize_if_needed_Never(img, calls) == Ok(img, calls)

\* ImageProcessor.resize_if_needed
resize_if_needed(img, calls) ==
    LET height == Height(img)
        width == Width(img)
    IN  IF height > max_dimension \/ width > max_dimension
        THEN LET m == Max(height, width)
                 new_width == ScaledSide(width, m)
                 new_height == ScaledSide(height, m)
             IN  cv2_resize(img, new_width, new_height, calls)
        ELSE Ok(img, calls)

\* ImageProcessor.optimize_memory_usage
optimize_memory_usage(img, calls) ==
    The({IF r.exc THEN r
         ELSE IF r.val.dtype # "uint8" THEN astype_uint8(r.val, r.calls)
         ELSE r
        : r \in {resize_if_needed(img, calls)}})

\* what a step of two images gives: the two images, or an exception
Both(val1, val2, calls) == [exc |-> FALSE, val1 |-> val1, val2 |-> val2, calls |-> calls]
Failed(calls) == [exc |-> TRUE, val1 |-> None, val2 |-> None, calls |-> calls]

\* ImageProcessor.resize_to_match: [exc, val1, val2, calls]
resize_to_match(img1, img2, calls) ==
    LET h1 == Height(img1)
        w1 == Width(img1)
        h2 == Height(img2)
        w2 == Width(img2)
        target_height == Min(h1, h2)
        target_width == Min(w1, w2)
    IN  IF h1 = h2 /\ w1 = w2
        THEN Both(img1, img2, calls)
        ELSE The({IF resized_img1.exc THEN Failed(resized_img1.calls) ELSE
             The({IF resized_img2.exc THEN Failed(resized_img2.calls)
                  ELSE Both(resized_img1.val, resized_img2.val, resized_img2.calls)
                 : resized_img2 \in {cv2_resize(img2, target_width, target_height,
                                                resized_img1.calls)}})
                 : resized_img1 \in {cv2_resize(img1, target_width, target_height, calls)}})

\* ImageProcessor.convert_to_binary
convert_to_binary(img, calls) ==
    The({IF gray.exc THEN gray ELSE cv2_threshold(gray.val, gray.calls)
        : gray \in {IF Len(img.shape) = 3 THEN cv2_cvtColor(img, calls)
                    ELSE Ok(img, Append(calls, "copy"))}})

\* The steps logical_and and union_operation share (lines 30-39 and 57-66):
\* [exc, val1, val2, calls] with the two binary images.  m is the pair
\* resize_to_match returns, o1 and o2 what optimize_memory_usage returns.
BinaryOperands(img1, img2) ==
    The({IF m.exc THEN m ELSE
    The({IF o1.exc THEN Failed(o1.calls) ELSE
    The({IF o2.exc THEN Failed(o2.calls) ELSE
    The({IF binary1.exc THEN Failed(binary1.calls) ELSE
    The({IF binary2.exc THEN Failed(binary2.calls)
         ELSE Both(binary1.val, binary2.val, binary2.calls)
        : binary2 \in {convert_to_binary(o2.val, binary1.calls)}})
        : binary1 \in {convert_to_binary(o1.val, o2.calls)}})
        : o2 \in {optimize_memory_usage(m.val2, o1.calls)}})
        : o1 \in {optimize_memory_usage(m.val1, m.calls)}})
        : m \in {resize_to_match(img1, img2, <<>>)}})

\* logical_and with binary1 given twice to cv2.bitwise_and
logical_and_FirstTwice(img1, img2) ==
    The({IF b.exc THEN Raise(b.calls) ELSE cv2_bitwise_and(b.val1, b.val1, b.calls)
        : b \in {BinaryOperands(img1, img2)}})

\* ImageProcessor.logical_and
logical_and(img1, img2) ==
    The({IF b.exc THEN Raise(b.calls) ELSE cv2_bitwise_and(b.val1, b.val2, b.calls)
        : b \in {BinaryOperands(img1, img2)}})

\* ImageProcessor.union_operation
union_operation(img1, img2) ==
    The({IF b.exc THEN Raise(b.calls) ELSE cv2_bitwise_or(b.val1, b.val2, b.calls)
        : b \in {BinaryOperands(img1, img2)}})

\* ----------------------------------------------------- buffers as objects
\* An array is an object; a name of the code is bound to an object and two
\* names can be bound to the same one.  Given(1) and Given(2) are the caller's
\* two buffers, Allocated(n) the buffer that the n-th library call of a
\* combine call allocates.
Given(i) == [given |-> i, call |-> 0]
Allocated(n) == [given |-> 0, call |-> n]

\* Dst with every call writing over its source (dst=src, copy=False)
Dst_InPlace(src, n) == src

\* The buffer the n-th library call writes its output to: cv2.resize,
\* cv2.cvtColor, cv2.threshold, cv2.bitwise_and and cv2.bitwise_or are called
\* without dst=, and copy() and astype() allocate, so it is a new buffer.
Dst(src, n) == Allocated(n)

\* a library call on the buffer bound to img1 (operand 1) or img2 (operand 2),
\* and the array it gives
Step(call, operand, val) == [call |-> call, operand |-> operand, val |-> val]

\* the library calls of resize_to_match, which returned m: none when it
\* returns img1 and img2 themselves (line 185)
MatchSteps(img1, img2, m) ==
    IF Height(img1) = Height(img2) /\ Width(img1) = Width(img2) THEN <<>>
    ELSE <<Step("cv2.resize", 1, m.val1), Step("cv2.resize", 2, m.val2)>>

\* the library calls of optimize_memory_usage(img): resize_if_needed returns
\* img itself when it is within max_dimension (line 148)
OptimizeSteps(operand, img) ==
    The({(IF r.calls # <<>> THEN <<Step("cv2.resize", operand, r.val)>> ELSE <<>>)
         \o (IF r.val.dtype # "uint8"
             THEN <<Step("astype", operand, astype_uint8(r.val, <<>>).val)>>
             ELSE <<>>)
        : r \in {resize_if_needed(img, <<>>)}})

\* the library calls of convert_to_binary(img)
ConvertSteps(operand, img) ==
    The({<<Step(gray.calls[1], operand, gray.val),
           Step("cv2.threshold", operand, cv2_threshold(gray.val, <<>>).val)>>
        : gray \in {IF Len(img.shape) = 3 THEN cv2_cvtColor(img, <<>>)
                    ELSE Ok(img, <<"copy">>)}})

\* The library calls of a logical_and or union_operation that returned r, in
\* the order of lines 31-42; the last one combines binary1 with binary2.
CombineSteps(img1, img2, r) ==
    The({
    The({
    The({MatchSteps(img1, img2, m)
         \o OptimizeSteps(1, m.val1) \o OptimizeSteps(2, m.val2)
         \o ConvertSteps(1, o1.val) \o ConvertSteps(2, o2.val)
         \o <<Step(r.calls[Len(r.calls)], 1, r.val)>>
        : o2 \in {optimize_memory_usage(m.val2, <<>>)}})
        : o1 \in {optimize_memory_usage(m.val1, <<>>)}})
        : m \in {resize_to_match(img1, img2, <<>>)}})

\* The memory of a call: obj[i] is the buffer the name of operand i is bound
\* to, effects the writes made so far.
Entry == [obj |-> <<Given(1), Given(2)>>, effects |-> <<>>]

\* one library call: it reads the buffer of its operand, writes its output to
\* Dst and the name is bound to what it returns
Write(h, s) ==
    LET src == h.obj[s.operand]
        dst == Dst(src, Len(h.effects) + 1)
    IN  [obj |-> [h.obj EXCEPT ![s.operand] = dst],
         effects |-> Append(h.effects,
                            [call |-> s.call, src |-> src, dst |-> dst, val |-> s.val])]

\* the memory after the calls steps[k], steps[k + 1], ...
RECURSIVE Perform(_, _, _)
Perform(steps, k, h) ==
    IF k > Len(steps) THEN h
    ELSE The({Perform(steps, k + 1, next) : next \in {Write(h, steps[k])}})

\* The memory after a logical_and or union_operation with outcome r; the
\* returned buffer is obj[1].  A call that raises leaves the memory as it was
\* at entry.
Memory(img1, img2, r) ==
    IF r.exc THEN Entry ELSE Perform(CombineSteps(img1, img2, r), 1, Entry)

\* what the buffer object holds after the writes of effects, having held init
Holds(object, init, effects) ==
    LET written == {n \in 1..Len(effects) : effects[n].dst = object}
    IN  IF written = {} THEN init
        ELSE effects[CHOOSE n \in written : \A x \in written : x <= n].val

\* ImageProcessor.validate_dimensions
validate_dimensions(img1, img2) == img1.shape = img2.shape

\* ImageProcessor.get_image_info
get_image_info(img) ==
    [shape |-> img.shape,
     height |-> img.shape[1],
     width |-> img.shape[2],
     channels |-> IF Len(img.shape) = 2 THEN Len(img.shape) ELSE img.shape[3],
     dtype |-> img.dtype,
     size |-> Size(img)]

\* ------------------------------------------------------------ FileHandler
\* A file name is a sequence of one-character strings.
Lower(ch) ==
    CASE ch = "P" -> "p" [] ch = "N" -> "n" [] ch = "G" -> "g" [] ch = "J" -> "j"
      [] ch = "E" -> "e" [] ch = "A" -> "a" [] ch = "T" -> "t" [] ch = "X" -> "x"
      [] ch = "I" -> "i" [] ch = "F" -> "f" [] OTHER -> ch

\* str.lower()
lower(str) == [k \in 1..Len(str) |-> Lower(str[k])]

\* the positions of the dots of str
Dots(str) == {k \in 1..Len(str) : str[k] = "."}

\* str.split('.')[-1]: what follows the last dot, and all of str when it has none
LastPart(str) ==
    IF Dots(str) = {} THEN str
    ELSE LET last == CHOOSE k \in Dots(str) : \A d \in Dots(str) : d <= k
         IN  SubSeq(str, last + 1, Len(str))

\* FileHandler.__init__: self.supported_formats
supported_formats == {<<".", "p", "n", "g">>, <<".", "j", "p", "g">>, <<".", "j", "p", "e", "g">>}

NoFile == [name |-> <<>>, content |-> None, present |-> FALSE]

\* FileHandler.validate_image_format
validate_image_format(uploaded_file) ==
    IF uploaded_file = NoFile THEN FALSE
    ELSE LET file_extension == <<".">> \o lower(LastPart(uploaded_file.name))
         IN  file_extension \in supported_formats

\* cv2.cvtColor(np_image, cv2.COLOR_RGB2BGR): the first and third channel swap
cv2_RGB2BGR(img) ==
    Array(img.shape, img.dtype,
          [i \in 1..Height(img) |-> [j \in 1..Width(img) |->
              <<img.data[i][j][3], img.data[i][j][2], img.data[i][j][1]>>]])

\* pil_image.convert('RGB') followed by np.array(pil_image): a height x width x 3
\* array; an image of one channel has its value in all three.
convert_pil_to_numpy(pil_image) ==
    Array(<<Height(pil_image), Width(pil_image), 3>>, "uint8",
          [i \in 1..Height(pil_image) |-> [j \in 1..Width(pil_image) |->
              IF Depth(pil_image) = 3 THEN pil_image.data[i][j]
              ELSE <<pil_image.data[i][j][1], pil_image.data[i][j][1], pil_image.data[i][j][1]>>]])

\* FileHandler.load_image_from_upload: the content of a file is the image its
\* bytes encode, or None when they encode none (Image.open raises, the handler
\* reports it and returns None).
load_image_from_upload(uploaded_file) ==
    IF uploaded_file = NoFile THEN None
    ELSE IF uploaded_file.content = None THEN None
    ELSE cv2_RGB2BGR(convert_pil_to_numpy(uploaded_file.content))

\* ------------------------------------------------------------------ state
VARIABLES
    img1, img2,          \* the caller's two buffers (None: not loaded)
    pc,                  \* what has been called: "ready", then the operation's name
    result,              \* the array the operation returned (None: none)
    raised,              \* an exception left the operation
    calls,               \* the library calls the operation started, in order
    info,                \* the dictionary get_image_info returned
    uploaded_file1,      \* what the two st.file_uploader widgets hold
    uploaded_file2,
    decoded,             \* the uploaded files handed to load_image_from_upload
    messages             \* what the page has shown, in order

vars == <<img1, img2, pc, result, raised, calls, info,
          uploaded_file1, uploaded_file2, decoded, messages>>

NoInfo == [shape |-> <<>>, height |-> 0, width |-> 0, channels |-> 0,
           dtype |-> "", size |-> 0]

\* ----------------------------------------------------------------- inputs
\* a checkerboard of the pixels p and q (uniform when p = q)
Pattern(h, w, p, q) == [i \in 1..h |-> [j \in 1..w |-> IF (i + j) % 2 = 0 THEN p ELSE q]]

GrayPairs ==
    {<<0, 0>>, <<127, 127>>, <<128, 128>>, <<255, 255>>,
     <<0, 255>>, <<255, 0>>, <<127, 128>>, <<128, 127>>}

Black == <<0, 0, 0>>
White == <<255, 255, 255>>
ColourPairs ==
    {<<Black, Black>>, <<White, White>>, <<White, Black>>,
     <<<<127, 127, 127>>, <<128, 128, 128>>>>,
     <<<<255, 0, 0>>, <<0, 255, 0>>>>, <<<<0, 0, 255>>, <<0, 255, 255>>>>}

\* 2-D 8-bit buffers of every size up to MaxDim, the empty ones included
SmallGray ==
    {Array(<<h, w>>, "uint8", Pattern(h, w, <<p[1]>>, <<p[2]>>)) :
        h \in 0..MaxDim, w \in 0..MaxDim, p \in GrayPairs}

\* height x width x 3 8-bit buffers (B, G, R)
SmallColour ==
    {Array(<<h, w, 3>>, "uint8", Pattern(h, w, p[1], p[2])) :
        h \in 0..MaxDim, w \in 0..MaxDim, p \in ColourPairs}

\* buffers of 2 and of 4 channels
OtherDepth ==
    {Array(<<s[1], s[2], 2>>, "uint8", Pattern(s[1], s[2], <<255, 255>>, <<255, 255>>)) :
        s \in {<<1, 1>>, <<2, 1>>}}
    \cup
    {Array(<<s[1], s[2], 4>>, "uint8", Pattern(s[1], s[2], <<255, 255, 255, 255>>, <<0, 0, 0, 255>>)) :
        s \in {<<1, 1>>, <<2, 1>>}}

\* 2-D 16-bit buffers
Wide ==
    {Array(<<1, w>>, "uint16", Pattern(1, w, <<p[1]>>, <<p[2]>>)) :
        w \in 1..2, p \in {<<383, 384>>, <<256, 255>>}}

\* the 4 x 4 buffers of one value
Uniform4x4 == {Array(<<4, 4>>, "uint8", Pattern(4, 4, <<v>>, <<v>>)) : v \in {0, 255}}

\* buffers with a side above max_dimension
Large ==
    {Array(<<2049, 2>>, "uint8", Pattern(2049, 2, <<p[1]>>, <<p[2]>>)) :
        p \in {<<0, 0>>, <<255, 255>>, <<255, 0>>}}
    \cup {Array(<<2215, 2>>, "uint8", Pattern(2215, 2, <<255>>, <<255>>)),
          Array(<<2, 4096>>, "uint8", Pattern(2, 4096, <<255>>, <<255>>)),
          Array(<<1, 5000>>, "uint8", Pattern(1, 5000, <<0>>, <<0>>)),
          Array(<<1, 5000>>, "uint8", Pattern(1, 5000, <<255>>, <<255>>)),
          Array(<<2049, 2, 3>>, "uint8", Pattern(2049, 2, White, White))}

Small == SmallGray \cup SmallColour \cup OtherDepth \cup Wide \cup Uniform4x4

\* the small buffers a large one is combined with
Partners ==
    {Array(<<0, 0>>, "uint8", Pattern(0, 0, <<0>>, <<0>>)),
     Array(<<1, 1>>, "uint8", Pattern(1, 1, <<255>>, <<255>>)),
     Array(<<2, 2>>, "uint8", Pattern(2, 2, <<0>>, <<255>>)),
     Array(<<2, 2, 3>>, "uint8", Pattern(2, 2, White, Black))}

\* the large buffer every other large one is combined with
Reference == Array(<<2049, 2>>, "uint8", Pattern(2049, 2, <<255>>, <<255>>))

Buffers == Small \cup Large

\* The pairs of buffers the operations are called with: every pair of small
\* buffers; a large buffer with a large one of its height and width, with a
\* large one that is also wider than max_dimension, with Reference and with
\* each of Partners, in both orders.
InputPairs ==
    (Small \X Small)
    \cup {p \in Large \X Large :
            \/ Height(p[1]) = Height(p[2]) /\ Width(p[1]) = Width(p[2])
            \/ Width(p[1]) > max_dimension /\ Width(p[2]) > max_dimension
            \/ Reference \in {p[1], p[2]}}
    \cup (Large \X Partners) \cup (Partners \X Large)

\* -------------------------------------------------- ImageProcessor, called
Init ==
    /\ \E pair \in InputPairs :
          /\ img1 = pair[1]
          /\ img2 = pair[2]
    /\ pc = "ready"
    /\ result = None
    /\ raised = FALSE
    /\ calls = <<>>
    /\ info = NoInfo
    /\ uploaded_file1 = NoFile
    /\ uploaded_file2 = NoFile
    /\ decoded = {}
    /\ messages = <<>>

\* result = image_processor.logical_and(img1, img2)
LogicalAnd ==
    /\ pc = "ready"
    /\ \E r \in {logical_and(img1, img2)} :
           /\ result' = r.val
           /\ raised' = r.exc
           /\ calls' = r.calls
           /\ \E h \in {Memory(img1, img2, r)} :
                  /\ img1' = Holds(Given(1), img1, h.effects)
                  /\ img2' = Holds(Given(2), img2, h.effects)
    /\ pc' = "logical_and"
    /\ UNCHANGED <<info, uploaded_file1, uploaded_file2, decoded, messages>>

\* result = image_processor.union_operation(img1, img2)
UnionOperation ==
    /\ pc = "ready"
    /\ \E r \in {union_operation(img1, img2)} :
           /\ result' = r.val
           /\ raised' = r.exc
           /\ calls' = r.calls
           /\ \E h \in {Memory(img1, img2, r)} :
                  /\ img1' = Holds(Given(1), img1, h.effects)
                  /\ img2' = Holds(Given(2), img2, h.effects)
    /\ pc' = "union_operation"
    /\ UNCHANGED <<info, uploaded_file1, uploaded_file2, decoded, messages>>

\* info = image_processor.get_image_info(img1)
GetImageInfo ==
    /\ pc = "ready"
    /\ info' = get_image_info(img1)
    /\ pc' = "get_image_info"
    /\ UNCHANGED <<img1, img2, result, raised, calls,
                   uploaded_file1, uploaded_file2, decoded, messages>>

\* result = image_processor.resize_if_needed(img1)
ResizeIfNeeded ==
    /\ pc = "ready"
    /\ \E r \in {resize_if_needed(img1, <<>>)} :
           /\ result' = r.val
           /\ raised' = r.exc
           /\ calls' = r.calls
    /\ pc' = "resize_if_needed"
    /\ UNCHANGED <<img1, img2, info, uploaded_file1, uploaded_file2, decoded, messages>>

Next == LogicalAnd \/ UnionOperation \/ GetImageInfo \/ ResizeIfNeeded

Spec == Init /\ [][Next]_vars

\* ------------------------------------------- ImageLogicalOperationsApp
\* the names of the uploaded files
FileNames ==
    {<<"a", ".", "p", "n", "g">>, <<"a", ".", "P", "N", "G">>, <<"a", ".", "j", "p", "g">>,
     <<"a", ".", "j", "p", "e", "g">>, <<"a", ".", "J", "p", "E", "g">>,
     <<"a", ".", "g", "i", "f">>, <<"a", ".", "p", "n">>, <<"a", ".", "p", "n", "g", "x">>,
     <<"a", ".", "p", "n", "g", ".", "t", "x", "t">>, <<"a", ".", "t", ".", "j", "p", "g">>,
     <<"p", "n", "g">>, <<"j", "p", "e", "g">>, <<"a">>, <<"a", ".">>, <<".", "p", "n", "g">>}

\* What the bytes of an uploaded file encode: a one-channel (mode L) or a
\* three-channel (mode RGB) image, or no image at all (None).
FileContents ==
    {None,
     Array(<<1, 1>>, "uint8", Pattern(1, 1, <<255>>, <<255>>)),
     Array(<<2, 2>>, "uint8", Pattern(2, 2, <<0>>, <<255>>)),
     Array(<<1, 2, 3>>, "uint8", Pattern(1, 2, <<255, 0, 0>>, <<255, 255, 255>>))}

\* an image wider than max_dimension
WideContent == Array(<<1, 2049>>, "uint8", Pattern(1, 2049, <<255>>, <<255>>))

UploadedFile(name, content) == [name |-> name, content |-> content, present |-> TRUE]

Uploads ==
    {UploadedFile(n, c) : n \in FileNames, c \in FileContents}
    \cup {UploadedFile(<<"a", ".", "p", "n", "g">>, WideContent)}

\* upload_images, one column (lines 105-118 and 128-141):
\* [img, decoded, shown] with the image, the files handed to the decoder and
\* the messages shown.
UploadColumn(uploaded_file) ==
    IF uploaded_file = NoFile
    THEN [img |-> None, decoded |-> {}, shown |-> <<>>]
    ELSE IF validate_image_format(uploaded_file)
    THEN The({IF img = None
              THEN [img |-> None, decoded |-> {uploaded_file}, shown |-> <<"load failed">>]
              ELSE [img |-> img, decoded |-> {uploaded_file},
                    shown |-> IF get_image_info(img).width > 2048
                                 \/ get_image_info(img).height > 2048
                              THEN <<"loaded", "will be resized">>
                              ELSE <<"loaded">>]
             : img \in {load_image_from_upload(uploaded_file)}})
    ELSE [img |-> None, decoded |-> {}, shown |-> <<"unsupported format">>]

AppInit ==
    /\ uploaded_file1 \in Uploads \cup {NoFile}
    /\ uploaded_file2 \in Uploads \cup {NoFile}
    /\ img1 = None
    /\ img2 = None
    /\ pc = "page"
    /\ result = None
    /\ raised = FALSE
    /\ calls = <<>>
    /\ info = NoInfo
    /\ decoded = {}
    /\ messages = <<>>

\* img1, img2 = self.upload_images()
UploadImages ==
    /\ pc = "page"
    /\ \E c1 \in {UploadColumn(uploaded_file1)}, c2 \in {UploadColumn(uploaded_file2)} :
           /\ img1' = c1.img
           /\ img2' = c2.img
           /\ decoded' = c1.decoded \cup c2.decoded
           /\ messages' = c1.shown \o c2.shown
    /\ pc' = "uploaded"
    /\ UNCHANGED <<result, raised, calls, info, uploaded_file1, uploaded_file2>>

OperationTypes == {"logical_and", "union_operation"}

\* main, lines 48-60, and handle_operation: with both images loaded the button
\* runs the chosen operation; an exception is caught and reported, and the
\* result is None.
HandleOperation(operation_type) ==
    /\ pc = "uploaded"
    /\ img1 # None
    /\ img2 # None
    /\ \E r \in {IF operation_type = "logical_and" THEN logical_and(img1, img2)
                  ELSE union_operation(img1, img2)} :
           /\ result' = r.val
           /\ raised' = r.exc
           /\ calls' = r.calls
           /\ messages' = Append(messages, IF r.exc THEN "processing error" ELSE "done")
           /\ \E h \in {Memory(img1, img2, r)} :
                  /\ img1' = Holds(Given(1), img1, h.effects)
                  /\ img2' = Holds(Given(2), img2, h.effects)
    /\ pc' = operation_type
    /\ UNCHANGED <<info, uploaded_file1, uploaded_file2, decoded>>

AppNext == UploadImages \/ \E t \in OperationTypes : HandleOperation(t)

AppSpec == AppInit /\ [][AppNext]_vars

\* ================================================================= claims
Combined == pc \in {"logical_and", "union_operation"}
Returned == Combined /\ ~raised

SameDims(a, b) == Height(a) = Height(b) /\ Width(a) = Width(b)

\* a buffer of the data model: positive height and width, 1 or 3 channels
IsPixelBuffer(img) ==
    /\ Height(img) > 0
    /\ Width(img) > 0
    /\ Len(img.shape) = 2 \/ (Len(img.shape) = 3 /\ img.shape[3] = 3)

\* the values of the array, all channels of all pixels
Values(img) ==
    {img.data[i][j][k] : i \in 1..Height(img), j \in 1..Width(img), k \in 1..Depth(img)}

\* ---------------------------------------------------------------------- C1
\* C1: whenever logical_and or union_operation returns a result, the result is a
\* 2-D (single-channel) array and each of its elements is 0 or 255, whatever
\* the channel counts and the dimensions of the two inputs.
C1_ResultIsBinary ==
    Returned => /\ Len(result.shape) = 2
                /\ \A i \in 1..Height(result) : \A j \in 1..Width(result) :
                       result.data[i][j] \in {<<0>>, <<255>>}

\* a 3-channel and a 2-D input of different sizes gave a result with both values
C1_Witness ==
    /\ Returned
    /\ Len(img1.shape) = 3 /\ img1.shape[3] = 3
    /\ Len(img2.shape) = 2
    /\ ~SameDims(img1, img2)
    /\ Values(result) = {0, 255}

\* ---------------------------------------------------------------------- C2
\* C2: a returned result is never larger than either input on either axis, and
\* neither of its sides exceeds 2048.
C2_NeverUpsamples ==
    Returned => /\ Height(result) <= Min(Height(img1), Height(img2))
                /\ Width(result) <= Min(Width(img1), Width(img2))
                /\ Height(result) <= 2048
                /\ Width(result) <= 2048

\* inputs of different sizes, both with a side above 2048, gave a result whose
\* longer side is exactly 2048
C2_Witness ==
    /\ Returned
    /\ ~SameDims(img1, img2)
    /\ Height(img1) > 2048 /\ Height(img2) > 2048
    /\ Height(result) = 2048

\* ---------------------------------------------------------------------- C3
\* C3: when either input is empty or has a channel count other than 1 or 3,
\* logical_and and union_operation raise before any processing step has begun
\* and return no buffer.
C3_InvalidBufferRejectedFirst ==
    (Combined /\ (~IsPixelBuffer(img1) \/ ~IsPixelBuffer(img2)))
        => (raised /\ calls = <<>> /\ result = None)

\* ---------------------------------------------------------------------- C4
\* C4: for every pair of valid buffers whose (height, width) differ,
\* logical_and and union_operation return a result instead of raising.
C4_MismatchNeverFails ==
    (Combined /\ IsPixelBuffer(img1) /\ IsPixelBuffer(img2) /\ ~SameDims(img1, img2))
        => ~raised

\* ---------------------------------------------------------------------- C5
\* what a call left behind: whether it raised, and the array it returned
Outcome(r) == [exc |-> r.exc, val |-> r.val]

\* C5: for buffers of the same height and width, logical_and(a, b) and
\* logical_and(b, a) end the same way with the same array, and so do
\* union_operation(a, b) and union_operation(b, a).
C5_Commutative ==
    (Combined /\ SameDims(img1, img2)) =>
        [exc |-> raised, val |-> result]
            = Outcome(IF pc = "logical_and" THEN logical_and(img2, img1)
                      ELSE union_operation(img2, img1))

\* two different buffers of the same size, one of them of 3 channels, gave a
\* result that holds both values
C5_Witness ==
    /\ Returned
    /\ SameDims(img1, img2)
    /\ img1 # img2
    /\ Len(img1.shape) # Len(img2.shape)
    /\ Values(img1) # Values(img2)
    /\ Values(result) = {0, 255}

\* ---------------------------------------------------------------------- C6
\* a 2-D 8-bit buffer of positive size whose elements are all 0 or 255
IsBinaryGray(img) ==
    /\ Len(img.shape) = 2
    /\ img.dtype = "uint8"
    /\ Height(img) > 0
    /\ Width(img) > 0
    /\ Values(img) \subseteq {0, 255}

\* the call was op(x, x) and gave back an array with the shape and the elements of x
GaveBackInput == ~raised /\ result.shape = img1.shape /\ result.data = img1.data

\* C6 as stated: for every single-channel binary buffer x of any positive size,
\* logical_and(x, x) = x and union_operation(x, x) = x.
C6_IdempotentAnySize ==
    (Combined /\ img1 = img2 /\ IsBinaryGray(img1)) => GaveBackInput

\* C6 as amended: for every single-channel binary buffer x whose height and
\* width are at most 2048, logical_and(x, x) = x and union_operation(x, x) = x.
C6_IdempotentWithinCeiling ==
    (Combined /\ img1 = img2 /\ IsBinaryGray(img1)
        /\ Height(img1) <= max_dimension /\ Width(img1) <= max_dimension)
        => GaveBackInput

\* op(x, x) was called on a binary 2 x 2 buffer that holds both values
C6_Witness ==
    /\ Combined
    /\ img1 = img2
    /\ IsBinaryGray(img1)
    /\ img1.shape = <<2, 2>>
    /\ Values(img1) = {0, 255}
    /\ result = img1

\* ---------------------------------------------------------------------- C7
AllOf(img, v) == Values(img) = {v}

\* C7: logical_and of an all-zero buffer with any other buffer, in either
\* position, gives an all-zero buffer of the smaller height and the smaller
\* width (of at most 2048 each), and union_operation of an all-255 buffer with
\* any other buffer gives an all-255 buffer of that size.
C7_Absorbing ==
    LET absorbing == IF pc = "logical_and" THEN 0 ELSE 255
    IN  (Combined /\ IsPixelBuffer(img1) /\ IsPixelBuffer(img2)
            /\ (AllOf(img1, absorbing) \/ AllOf(img2, absorbing)))
        => /\ ~raised
           /\ AllOf(result, absorbing)
           /\ Height(result) <= Min(Height(img1), Height(img2))
           /\ Width(result) <= Min(Width(img1), Width(img2))
           /\ (Max(Height(img1), Width(img1)) <= max_dimension
                 \/ Max(Height(img2), Width(img2)) <= max_dimension)
                => /\ Height(result) = Min(Height(img1), Height(img2))
                   /\ Width(result) = Min(Width(img1), Width(img2))

\* ---------------------------------------------------------------------- C8
\* a 2-D 8-bit buffer of positive size within the ceiling
IsGray8(img) ==
    /\ Len(img.shape) = 2
    /\ img.dtype = "uint8"
    /\ Height(img) \in 1..max_dimension
    /\ Width(img) \in 1..max_dimension

\* C8: for two single-channel 8-bit buffers of the same size within the
\* ceiling, the result has that size and, at every position, logical_and
\* gives 255 exactly when both elements exceed 127 and union_operation gives
\* 255 exactly when one of them does, and 0 otherwise.
C8_ThresholdThenCombine ==
    (Combined /\ IsGray8(img1) /\ IsGray8(img2) /\ SameDims(img1, img2)) =>
        /\ ~raised
        /\ result.shape = img1.shape
        /\ \A i \in 1..Height(img1) : \A j \in 1..Width(img1) :
              LET a == img1.data[i][j][1]
                  b == img2.data[i][j][1]
              IN  result.data[i][j][1] =
                    IF pc = "logical_and"
                    THEN (IF a > 127 /\ b > 127 THEN 255 ELSE 0)
                    ELSE (IF a > 127 \/ b > 127 THEN 255 ELSE 0)

\* logical_and met 127 against 255 and 128 against 255 in one call: the first
\* gave 0 and the second 255
C8_Witness ==
    /\ pc = "logical_and"
    /\ IsGray8(img1) /\ IsGray8(img2)
    /\ img1.shape = <<1, 2>> /\ img2.shape = <<1, 2>>
    /\ img1.data = <<<<<<127>>, <<128>>>>>>
    /\ AllOf(img2, 255)
    /\ result.data = <<<<<<0>>, <<255>>>>>>

\* ---------------------------------------------------------------------- C9
\* C9: get_image_info reports the number of rows as height, the number of
\* columns as width, the number of elements as size, and as channels 1 for a
\* 2-D buffer and the third extent for a 3-D one.
C9_InfoIsTrue ==
    pc = "get_image_info" =>
        /\ info.height = Len(img1.data)
        /\ info.width = Width(img1)
        /\ info.size = Height(img1) * Width(img1) * Depth(img1)
        /\ info.channels = IF Len(img1.shape) = 2 THEN 1 ELSE img1.shape[3]

\* --------------------------------------------------------------------- C10
\* the name has a dot, and what follows its last dot is png, jpg or jpeg in
\* any mix of cases
HasSupportedExtension(name) ==
    \E k \in 1..Len(name) :
        /\ name[k] = "."
        /\ \A d \in (k + 1)..Len(name) : name[d] # "."
        /\ lower(SubSeq(name, k + 1, Len(name)))
              \in {<<"p", "n", "g">>, <<"j", "p", "g">>, <<"j", "p", "e", "g">>}

\* C10: every file that upload_images hands to the decoder, and every file
\* whose image reaches ImageProcessor, has an extension in {png, jpg, jpeg};
\* validate_image_format accepts no other file.
C10_OnlySupportedExtensionsDecoded ==
    /\ \A f \in decoded : HasSupportedExtension(f.name)
    /\ \A f \in {uploaded_file1, uploaded_file2} :
          (f # NoFile /\ validate_image_format(f)) => HasSupportedExtension(f.name)
    /\ (pc # "page" /\ img1 # None) => HasSupportedExtension(uploaded_file1.name)
    /\ (pc # "page" /\ img2 # None) => HasSupportedExtension(uploaded_file2.name)

\* ---------------------------------------------------------------------- C11
\* C11: when logical_and or union_operation returns, each of the caller's two
\* buffers holds the shape and the element values it held before the call, and
\* the returned buffer is a buffer the call allocated, neither of the two.
C11_InputsUntouchedResultNew ==
    [][(pc = "ready" /\ pc' \in {"logical_and", "union_operation"} /\ ~raised')
          => /\ img1' = img1
             /\ img2' = img2
             /\ Memory(img1, img2, [exc |-> FALSE, val |-> result', calls |-> calls']).obj[1]
                    \notin {Given(1), Given(2)}]_vars

\* a call returned for two buffers of different heights, both clamped
C11_Witness ==
    /\ Returned
    /\ ~SameDims(img1, img2)
    /\ Min(Height(img1), Height(img2)) > max_dimension

\* ---------------------------------------------------------------------- C12
\* C12: resize_if_needed, given a buffer of positive height and width, returns
\* a buffer of positive height and width: the buffer's own dimensions when
\* both are at most 2048, and otherwise dimensions scaled down so that neither
\* exceeds 2048 and neither is 0, also for a buffer of 1 x 5000.
C12_ClampKeepsSidesPositive ==
    (pc = "resize_if_needed" /\ Height(img1) > 0 /\ Width(img1) > 0)
        => /\ ~raised
           /\ Height(result) > 0 /\ Width(result) > 0
           /\ Max(Height(result), Width(result)) <= max_dimension
           /\ (Height(img1) <= max_dimension /\ Width(img1) <= max_dimension)
                  => SameDims(result, img1)

====
